---- MODULE Spec2Model ----
(***************************************************************************)
(* A model of VirtualenvMixin (src/mixins/virtualenv.py): registering      *)
(* modules, creating the virtualenv, installing modules under retry, and   *)
(* reading the installed packages from `pip freeze` output.                *)
(*                                                                         *)
(* Strings the code looks into (the freeze output) are sequences of        *)
(* one-character strings; command-line arguments are strings, a command    *)
(* is a sequence of them.                                                  *)
(***************************************************************************)
EXTENDS Integers, Sequences, FiniteSets, TLC

VARIABLES
    config,               \* self.config and what the file system / PATH hold
    _virtualenv_modules,  \* self._virtualenv_modules
    python_exists,        \* os.path.exists(self.query_python_path())
    pc,                   \* where the script is: idle, installing, retrying, query, fatal
    calls,                \* number of create_virtualenv calls made
    frame,                \* locals of the running create_virtualenv call
    retrying,             \* the self.retry(self.run_command, ...) in progress
    log,                  \* commands run and messages logged by the current
                          \* (or last) create_virtualenv call, in order
    history,              \* per create_virtualenv call: whether the interpreter
                          \* existed, and the creation tool's exit status
    retval,               \* what the last create_virtualenv call returned
    listing,              \* the records a freeze output is rendered from
    pip_freeze_output,    \* the text `pip freeze` prints
    packages,             \* what package_versions returned
    installed,            \* what is_python_package_installed returned
    call,                 \* arguments of an install_module call
    command               \* the command install_module built for them

vars == <<config, _virtualenv_modules, python_exists, pc, calls, frame, retrying,
          log, history, retval, listing, pip_freeze_output, packages, installed, call, command>>

---------------------------------------------------------------------------
(* Bounds of the model *)

\* create_virtualenv calls in one run of the script
MaxCalls == 2
\* entries of a modules list (call-time or virtualenv_modules)
MaxModules == 2
\* register_virtualenv_module calls
MaxRegistered == 1
\* attempts self.retry makes when attempts=None (the configured default, > 1)
DefaultAttempts == 2
\* install commands that exit non-zero during one create_virtualenv call
MaxFailures == 4
\* lines of a freeze output
MaxLines == 3
\* requirements files, global options and find-links urls of one install
MaxArgs == 2

---------------------------------------------------------------------------
(* Values *)

None == "None"
WARNING == "WARNING"
FATAL == "FATAL"

\* No install_module command built yet
NoCommand == [status |-> "none", sub |-> <<>>, argv |-> <<>>, cwd |-> ""]

\* Sequences over S of length at most n
SeqsUpTo(S, n) == UNION {[1..k -> S] : k \in 0..n}

\* Sequences without repetition taken from the front of a fixed sequence
Prefixes(s, n) == {SubSeq(s, 1, k) : k \in 0..(IF n < Len(s) THEN n ELSE Len(s))}

---------------------------------------------------------------------------
(* package_versions and is_python_package_installed *)

\* str.isspace for the characters of the model
IsSpace(c) == c \in {" ", "\t"}

\* str.lower, one character
LowerChar(c) ==
    CASE c = "P" -> "p"
      [] c = "Q" -> "q"
      [] c = "E" -> "e"
      [] OTHER -> c

\* str.lower
Lower(s) == [i \in 1..Len(s) |-> LowerChar(s[i])]

\* index of the first line break of text, 0 when it has none
FirstBreak(text) ==
    IF \E i \in 1..Len(text) : text[i] = "\n"
    THEN CHOOSE i \in 1..Len(text) :
            /\ text[i] = "\n"
            /\ \A j \in 1..(i - 1) : text[j] # "\n"
    ELSE 0

\* str.splitlines: the lines without their breaks; a final break opens no line
RECURSIVE splitlines(_)
splitlines(text) ==
    IF text = <<>> THEN <<>>
    ELSE LET nl == FirstBreak(text)
         IN  IF nl = 0 THEN <<text>>
             ELSE <<SubSeq(text, 1, nl - 1)>>
                  \o splitlines(SubSeq(text, nl + 1, Len(text)))

\* str.strip: leading and trailing whitespace removed
RECURSIVE strip(_)
strip(line) ==
    IF line = <<>> THEN line
    ELSE IF IsSpace(Head(line)) THEN strip(Tail(line))
    ELSE IF IsSpace(line[Len(line)]) THEN strip(SubSeq(line, 1, Len(line) - 1))
    ELSE line

\* startswith_dash with the test for '-' lines left out
startswith_dash_never(line) == FALSE

\* line.startswith('-')
startswith_dash(line) == line # <<>> /\ Head(line) = "-"

\* index of the first '==' of line, 0 when it has none ('==' in line)
FindSeparator(line) ==
    IF \E i \in 1..(Len(line) - 1) : line[i] = "=" /\ line[i + 1] = "="
    THEN CHOOSE i \in 1..(Len(line) - 1) :
            /\ line[i] = "=" /\ line[i + 1] = "="
            /\ \A j \in 1..(i - 1) : ~(line[j] = "=" /\ line[j + 1] = "=")
    ELSE 0

\* line.split('==', 1), for a line that holds '=='
split_first(line) ==
    LET i == FindSeparator(line)
    IN  <<SubSeq(line, 1, i - 1), SubSeq(line, i + 2, Len(line))>>

\* DictSet keeping the entries the key already has (a list of pairs appended to)
DictAppend(dict, key, value) == dict \cup {<<key, value>>}

\* packages[package] = version: a dict as a set of <<key, value>>, one per key
DictSet(dict, key, value) == {kv \in dict : kv[1] # key} \cup {<<key, value>>}

\* The loop of package_versions over the lines left, the dict built so far in
\* pkgs. self.fatal ends the script: nothing is returned.
RECURSIVE ParseLines(_, _)
ParseLines(lines, pkgs) ==
    IF lines = <<>> THEN [fatal |-> FALSE, packages |-> pkgs]
    ELSE LET line == strip(Head(lines))
         IN  IF line = <<>> THEN ParseLines(Tail(lines), pkgs)
             ELSE IF startswith_dash(line) THEN ParseLines(Tail(lines), pkgs)
             ELSE IF FindSeparator(line) = 0 THEN [fatal |-> TRUE, packages |-> {}]
             ELSE LET pv == split_first(line)
                  IN  ParseLines(Tail(lines), DictSet(pkgs, pv[1], pv[2]))

\* package_versions(pip_freeze_output=text)
package_versions(text) == ParseLines(splitlines(text), {})

\* The keys of a dict
Keys(dict) == {kv[1] : kv \in dict}

\* is_python_package_installed(package_name), `pip freeze` printing text
is_python_package_installed(package_name, text) ==
    LET r == package_versions(text)
    IN  [fatal |-> r.fatal,
         result |-> ~r.fatal /\ Lower(package_name) \in {Lower(k) : k \in Keys(r.packages)}]

(* The freeze outputs of the model: each is rendered from a sequence of line
   records, so that what the parse returns can be compared with what was
   written. *)
PackageNames == {<<"p">>, <<"P">>, <<"q">>}
Versions == {<<"1">>, <<"2">>}

PkgLine(n, v, lpad, rpad) == [kind |-> "pkg", name |-> n, version |-> v, text |-> lpad \o n \o <<"=", "=">> \o v \o rpad]
OtherLine(k, t) == [kind |-> k, name |-> <<>>, version |-> <<>>, text |-> t]

LineRecords ==
    {PkgLine(n, v, <<>>, <<>>) : n \in PackageNames, v \in Versions}
    \cup {PkgLine(<<"q">>, <<"1", "=", "=", "2">>, <<" ">>, <<" ", "\t">>)}
    \cup {OtherLine("blank", <<>>), OtherLine("blank", <<" ", "\t">>),
          OtherLine("dash", <<"-", "e", " ", "q", "=", "=", "1">>),
          OtherLine("dash", <<" ", "-", "f", " ", "x">>),
          OtherLine("bad", <<"p", "=", "1">>)}

\* The text of the lines, each ended by a line break
RECURSIVE Render(_)
Render(ls) ==
    IF ls = <<>> THEN <<>>
    ELSE Head(ls).text \o <<"\n">> \o Render(Tail(ls))

NoResult == [fatal |-> FALSE, packages |-> {}, done |-> FALSE]
NoAnswer == [name |-> <<>>, fatal |-> FALSE, result |-> FALSE, done |-> FALSE]

---------------------------------------------------------------------------
(* install_module: the command it builds *)

\* c.get('pip_timeout', 120)
pip_timeout_default == 120

\* query_virtualenv_path(): 'virtualenv_path' is configured
venv_path == "venv"
abs_work_dir == "work_dir"

\* query_python_path(binary): the binary inside the virtualenv
query_python_path(c, binary) ==
    CASE binary = "pip" -> IF c.is_windows THEN "venv/Scripts/pip" ELSE "venv/bin/pip"
      [] binary = "python" -> IF c.is_windows THEN "venv/Scripts/python" ELSE "venv/bin/python"
      [] OTHER -> IF c.is_windows THEN "venv/Scripts/easy_install-script.py"
                  ELSE "venv/bin/easy_install-script.py"

\* The arguments of one install_module call
Args(module, module_url, install_method, requirements, optional, global_options, no_deps, editable) ==
    [module |-> module, module_url |-> module_url, install_method |-> install_method,
     requirements |-> requirements, optional |-> optional,
     global_options |-> global_options, no_deps |-> no_deps, editable |-> editable]

\* if not module_url: module_url = module
ResolvedUrl(a) == IF a.module_url = None THEN a.module ELSE a.module_url

IsPip(a) == a.install_method \in {None, "pip"}

\* for x in xs: command += [flag, x]
RECURSIVE Pairs(_, _)
Pairs(flag, xs) ==
    IF xs = <<>> THEN <<>> ELSE <<flag, Head(xs)>> \o Pairs(flag, Tail(xs))

\* Proxxy.get_proxies_and_urls(c.get('find_links', [])): the urls to look at
get_proxies_and_urls(urls) == urls

\* The pip branch of install_module up to the global options
pip_command(c, a) ==
    (IF c.verbose_pip THEN <<query_python_path(c, "pip"), "-v", "install">>
     ELSE <<query_python_path(c, "pip"), "install">>)
    \o (IF a.no_deps THEN <<"--no-deps">> ELSE <<>>)
    \o (IF c.virtualenv_cache_dir # "" THEN <<"--download-cache", c.virtualenv_cache_dir>>
        ELSE <<>>)
    \o <<"--timeout", ToString(pip_timeout_default)>>
    \o Pairs("-r", a.requirements)
    \o (IF c.find_links # <<>> /\ ~c.pip_index THEN <<"--no-index">> ELSE <<>>)
    \o Pairs("--global-option", a.global_options)

\* The easy_install branch: query_exe('easy_install', default=default)
easy_install_command(c) ==
    IF c.is_windows
    THEN <<query_python_path(c, "python"), query_python_path(c, "easy_install-script.py")>>
    ELSE <<"easy_install">>

\* command.extend(["--find-links", link]) for every link
find_links_args(c) == Pairs("--find-links", get_proxies_and_urls(c.find_links))

\* if module_url: [-e] module_url
source_args(a) ==
    IF ResolvedUrl(a) = None THEN <<>>
    ELSE (IF a.editable THEN <<"-e">> ELSE <<>>) \o <<ResolvedUrl(a)>>

\* early_fatal with the checks left out
early_fatal_never(a) == FALSE

\* The configuration errors install_module raises before it builds a command
early_fatal(a) ==
    IF IsPip(a) THEN ResolvedUrl(a) = None /\ a.requirements = <<>>
    ELSE IF a.install_method = "easy_install" THEN a.module = None
    ELSE TRUE

\* "editable installs not supported for install_method %s"
editable_fatal(a) == ResolvedUrl(a) # None /\ a.editable /\ ~IsPip(a)

\* Whether install_module first installs the requirements files with pip
has_sub_install(a) ==
    ~IsPip(a) /\ a.install_method = "easy_install" /\ a.requirements # <<>>

\* The call install_module makes of itself for the requirements files
sub_install_args(a) ==
    Args(None, None, "pip", a.requirements, FALSE, <<>>, FALSE, FALSE)

\* build_command with the find-links pages added after the source
build_command_links_last(c, a) ==
    (IF IsPip(a) THEN pip_command(c, a) ELSE easy_install_command(c))
    \o source_args(a) \o find_links_args(c)

\* The whole command of a call that raises no error
build_command(c, a) ==
    (IF IsPip(a) THEN pip_command(c, a) ELSE easy_install_command(c))
    \o find_links_args(c) \o source_args(a)

\* os.path.dirname of a requirements file
dirname(path) == IF path = "reqs/r1.txt" THEN "reqs" ELSE "."

\* cwd of the command
command_cwd(a) ==
    IF a.module = None /\ Len(a.requirements) = 1 THEN dirname(a.requirements[1])
    ELSE abs_work_dir

\* attempts=1 if optional else None
retry_attempts(a) == IF a.optional THEN 1 ELSE DefaultAttempts

\* error_level=WARNING if optional else FATAL
retry_error_level(a) == IF a.optional THEN WARNING ELSE FATAL

---------------------------------------------------------------------------
(* create_virtualenv *)

\* An entry of a modules list: a name, or a dict with name, url, global_options
NameDecl(name) == [isdict |-> FALSE, name |-> name, url |-> None, global_options |-> <<>>]
DictDecl(name, url, opts) == [isdict |-> TRUE, name |-> name, url |-> url, global_options |-> opts]

\* A tuple register_virtualenv_module appends
Registered(name, url, method, requirements, optional, two_pass, editable) ==
    [name |-> name, url |-> url, method |-> method, requirements |-> requirements,
     optional |-> optional, two_pass |-> two_pass, editable |-> editable]

\* self.config.get('%s_url' % module, module_url)
url_override(c, module) ==
    IF module = "foo" /\ c.foo_url # None THEN c.foo_url ELSE module

\* "Can't install module without module name"
decl_fatal(decl) == decl.isdict /\ decl.name = None

\* The install_module call the loop over modules makes for one entry
module_call(c, decl, requirements) ==
    LET module_name == decl.name
        module_url == IF decl.isdict THEN decl.url ELSE url_override(c, decl.name)
        install_method == IF module_name = "pywin32" THEN "easy_install" ELSE "pip"
    IN  Args(module_name, module_url, install_method, requirements, FALSE,
             decl.global_options, FALSE, FALSE)

\* The install_module calls the loop over self._virtualenv_modules makes
registered_call(spec, no_deps) ==
    Args(spec.name, spec.url, spec.method, spec.requirements, spec.optional, <<>>,
         no_deps, spec.editable)

\* install_module(requirements=requirements, install_method='pip')
requirements_call(requirements) ==
    Args(None, None, "pip", requirements, FALSE, <<>>, FALSE, FALSE)

NoFrame == [modules |-> <<>>, requirements |-> <<>>, phase |-> "none", i |-> 0,
            no_deps_done |-> FALSE]

\* skip_done that forgets the registered modules
skip_done_no_registered(f, registered) ==
    IF f.phase = "modules" /\ f.i > Len(f.modules)
    THEN [f EXCEPT !.phase = "query", !.i = 0]
    ELSE f

\* The position after the loops that have nothing left are passed
skip_done(f, registered) ==
    IF f.phase = "modules" /\ f.i > Len(f.modules)
    THEN IF registered = <<>> THEN [f EXCEPT !.phase = "query", !.i = 0]
         ELSE [f EXCEPT !.phase = "registered", !.i = 1]
    ELSE IF f.phase = "registered" /\ f.i > Len(registered)
    THEN [f EXCEPT !.phase = "query", !.i = 0]
    ELSE f

\* if not modules: modules = c.get('virtualenv_modules', []); the same for
\* requirements; then the first install to make
start_frame(c, modules, requirements, registered) ==
    LET ms == IF modules = <<>> THEN c.virtualenv_modules ELSE modules
        rs == IF requirements = <<>> THEN c.virtualenv_requirements ELSE requirements
    IN  skip_done([modules |-> ms, requirements |-> rs,
                   phase |-> IF ms = <<>> /\ rs # <<>> THEN "requirements" ELSE "modules",
                   i |-> 1, no_deps_done |-> FALSE], registered)

\* is_no_deps_pass with two_pass ignored
is_no_deps_pass_never(f, registered) == FALSE

\* Whether the install_module call to make now is the --no-deps pass
is_no_deps_pass(f, registered) ==
    f.phase = "registered" /\ registered[f.i].two_pass /\ ~f.no_deps_done

\* The position after the install_module call at f returned
advance(f, registered) ==
    IF f.phase = "requirements"
    THEN skip_done([f EXCEPT !.phase = "modules", !.i = 1], registered)
    ELSE IF is_no_deps_pass(f, registered) THEN [f EXCEPT !.no_deps_done = TRUE]
    ELSE skip_done([f EXCEPT !.i = f.i + 1, !.no_deps_done = FALSE], registered)

\* The install_module call to make at f
current_call(c, f, registered) ==
    IF f.phase = "requirements" THEN requirements_call(f.requirements)
    ELSE IF f.phase = "modules" THEN module_call(c, f.modules[f.i], f.requirements)
    ELSE registered_call(registered[f.i], is_no_deps_pass(f, registered))

\* One thing the script did: a command it ran, or a message it logged
\* (phase, i, no_deps, optional: the install_module call of create_virtualenv it
\* belongs to; sub: it belongs to that call's requirements sub-install)
Event(kind, cmd, status, level, f, a, sub) ==
    [kind |-> kind, command |-> cmd, status |-> status, level |-> level,
     phase |-> f.phase, i |-> f.i, no_deps |-> a.no_deps, optional |-> a.optional,
     sub |-> sub]

NoArgs == Args(None, None, None, <<>>, FALSE, <<>>, FALSE, FALSE)

\* self.retry(self.run_command, attempts=..., error_level=..., args=[command])
\* for the call a, made for the top-level call top; outer holds the call to
\* go on with when a is its requirements sub-install
Retry(c, a, top, outer) ==
    [command |-> build_command(c, a), cwd |-> command_cwd(a),
     attempts |-> retry_attempts(a), error_level |-> retry_error_level(a),
     n |-> 0, top |-> top, outer |-> outer]

NoRetry == [command |-> <<>>, cwd |-> "", attempts |-> 0, error_level |-> "", n |-> 0,
            top |-> NoArgs, outer |-> <<>>]

---------------------------------------------------------------------------
(* The inputs of the model *)

Config(found, dll, download, modules, requirements, windows, verbose, cache, links, index, foo_url) ==
    [virtualenv_found |-> found, virtualenv_python_dll |-> dll, pip_url |-> download,
     virtualenv_modules |-> modules, virtualenv_requirements |-> requirements,
     is_windows |-> windows, verbose_pip |-> verbose, virtualenv_cache_dir |-> cache,
     find_links |-> links, pip_index |-> index, foo_url |-> foo_url]

\* The modules lists create_virtualenv is called with: the first entries of
\* these
ModuleSequences ==
    {<<NameDecl("foo"), DictDecl("bar", "http://x/bar.tgz", <<"--opt">>), NameDecl("pywin32")>>,
     <<NameDecl("pywin32"), DictDecl(None, None, <<>>)>>}

ModuleLists == UNION {Prefixes(ms, MaxModules) : ms \in ModuleSequences}

RequirementsFiles == <<"reqs/r1.txt", "r2.txt", "r3.txt">>
GlobalOptions == <<"--opt", "--without-gcc", "--use-clang">>
FindLinks == <<"http://pypi.pvt", "http://pypi.pub", "http://pypi.org">>

\* What the script registers: the first entries of one of these
RegisteredSequences ==
    {<<Registered("m", None, "pip", <<>>, TRUE, FALSE, FALSE),
       Registered("m", "http://x/m.tgz", None, <<"reqs/r1.txt">>, FALSE, TRUE, TRUE)>>,
     <<Registered("m", "http://x/m.tgz", None, <<"reqs/r1.txt">>, FALSE, TRUE, TRUE),
       Registered("m", None, "pip", <<>>, TRUE, FALSE, FALSE)>>,
     <<Registered("e", None, "easy_install", <<"reqs/r1.txt">>, TRUE, TRUE, FALSE),
       Registered("m", None, "setup.py", <<>>, FALSE, FALSE, FALSE)>>,
     <<Registered("e", None, "easy_install", <<"reqs/r1.txt">>, FALSE, FALSE, TRUE)>>,
     <<Registered(None, None, None, <<>>, FALSE, FALSE, FALSE)>>,
     <<Registered("m", None, "setup.py", <<>>, FALSE, FALSE, FALSE)>>}

RegisteredLists == UNION {Prefixes(rs, MaxRegistered) : rs \in RegisteredSequences}

RegisteredSpecs == UNION {{rs[n] : n \in 1..Len(rs)} : rs \in RegisteredSequences}

\* The configurations create_virtualenv runs under
Configs ==
    {Config(FALSE, TRUE, TRUE, <<>>, <<>>, FALSE, FALSE, "venv/cache", <<>>, TRUE, None),
     Config(TRUE, FALSE, FALSE, <<>>, <<>>, FALSE, FALSE, "venv/cache", <<>>, TRUE, None),
     Config(TRUE, TRUE, TRUE, <<NameDecl("foo")>>, <<>>, TRUE, TRUE, "", SubSeq(FindLinks, 1, 1), FALSE,
            "http://x/foo.tgz")}

\* history's entry for the creation tool: not run, or how it exited
NotRun == "not run"
Exited(status) == IF status = 0 THEN "exit 0" ELSE "exit 1"

\* What `pip freeze` can print at the end of create_virtualenv
FreezeOutputs ==
    {Render(<<PkgLine(<<"p">>, <<"1">>, <<>>, <<>>)>>),
     Render(<<OtherLine("bad", <<"p", "=", "1">>)>>)}

---------------------------------------------------------------------------
(* The script *)

Init ==
    /\ config \in Configs
    /\ python_exists \in BOOLEAN
    /\ _virtualenv_modules = <<>>
    /\ pc = "idle"
    /\ calls = 0
    /\ frame = NoFrame
    /\ retrying = NoRetry
    /\ log = <<>>
    /\ history = <<>>
    /\ retval = ""
    /\ listing = <<>>
    /\ pip_freeze_output = <<>>
    /\ packages = NoResult
    /\ installed = NoAnswer
    /\ call = NoArgs
    /\ command = NoCommand

PureVars == <<listing, pip_freeze_output, packages, installed, call, command>>

\* register_virtualenv_module(name, url, method, requirements, optional, two_pass, editable),
\* called "up until create_virtualenv()"
register_virtualenv_module(spec) ==
    /\ pc = "idle"
    /\ calls = 0
    /\ Append(_virtualenv_modules, spec) \in RegisteredLists
    /\ _virtualenv_modules' = Append(_virtualenv_modules, spec)
    /\ UNCHANGED <<config, python_exists, pc, calls, frame, retrying, log, history, retval>>
    /\ UNCHANGED PureVars

\* The messages and commands of create_virtualenv before the creation step
staging_events(c, copy_ok) ==
    (IF c.virtualenv_python_dll
     THEN <<Event("copyfile", <<>>, IF copy_ok THEN 0 ELSE 1,
                  IF copy_ok THEN "" ELSE WARNING, NoFrame, NoArgs, FALSE)>>
     ELSE <<>>)
    \o (IF c.pip_url THEN <<Event("download_file", <<>>, 0, "", NoFrame, NoArgs, FALSE)>>
        ELSE <<>>)

\* virtualenv + virtualenv_options + [venv_path]
virtualenv_command == <<"virtualenv", "--no-site-packages", "--distribute", venv_path>>

\* virtualenv_missing with the test left out
virtualenv_missing_never(c) == FALSE

\* not os.path.exists(virtualenv[0]) and not self.which(virtualenv[0])
virtualenv_missing(c) == ~c.virtualenv_found

\* runs_virtualenv without the test for an existing interpreter
runs_virtualenv_always(exists) == TRUE

\* Whether create_virtualenv runs the creation tool
runs_virtualenv(exists) == ~exists

\* create_virtualenv(modules, requirements) up to its first install_module call
create_virtualenv(modules, requirements) ==
    /\ pc = "idle"
    /\ calls < MaxCalls
    /\ calls' = calls + 1
    /\ UNCHANGED <<config, _virtualenv_modules, retrying>>
    /\ UNCHANGED PureVars
    /\ IF virtualenv_missing(config)
       THEN /\ log' = <<Event("add_summary", <<>>, 0, FATAL, NoFrame, NoArgs, FALSE)>>
            /\ history' = Append(history, [python_existed |-> python_exists,
                                           virtualenv |-> NotRun])
            /\ retval' = "-1"
            /\ UNCHANGED <<pc, python_exists, frame>>
       ELSE \E copy_ok \in (IF config.virtualenv_python_dll THEN BOOLEAN ELSE {TRUE}),
               status \in (IF runs_virtualenv(python_exists) THEN {0, 1} ELSE {0}) :
            LET staged == staging_events(config, copy_ok)
                f == start_frame(config, modules, requirements, _virtualenv_modules)
            IN  /\ log' = IF runs_virtualenv(python_exists)
                          THEN Append(staged, Event("virtualenv", virtualenv_command,
                                                    status, IF status = 0 THEN "" ELSE FATAL,
                                                    NoFrame, NoArgs, FALSE))
                          ELSE staged
                /\ history' = Append(history,
                                      [python_existed |-> python_exists,
                                       virtualenv |-> IF runs_virtualenv(python_exists)
                                                      THEN Exited(status) ELSE NotRun])
                /\ python_exists' = (python_exists \/ status = 0)
                /\ retval' = ""
                /\ IF status # 0
                   THEN pc' = "fatal" /\ frame' = NoFrame
                   ELSE /\ frame' = f
                        /\ pc' = IF f.phase = "query" THEN "query" ELSE "installing"

\* self.fatal(...): the message, and the script ends
Fatal(f, a) ==
    /\ log' = Append(log, Event("config_error", <<>>, 0, FATAL, f, a, FALSE))
    /\ pc' = "fatal"
    /\ UNCHANGED <<frame, retrying>>

\* The next install_module call of create_virtualenv, up to its self.retry
install_module ==
    /\ pc = "installing"
    /\ UNCHANGED <<config, _virtualenv_modules, python_exists, calls, history, retval>>
    /\ UNCHANGED PureVars
    /\ IF frame.phase = "modules" /\ decl_fatal(frame.modules[frame.i])
       THEN Fatal(frame, NoArgs)
       ELSE LET a == current_call(config, frame, _virtualenv_modules)
            IN  IF early_fatal(a) THEN Fatal(frame, a)
                ELSE IF has_sub_install(a)
                THEN /\ retrying' = Retry(config, sub_install_args(a), a, <<a>>)
                     /\ pc' = "retrying"
                     /\ UNCHANGED <<frame, log>>
                ELSE IF editable_fatal(a) THEN Fatal(frame, a)
                ELSE /\ retrying' = Retry(config, a, a, <<>>)
                     /\ pc' = "retrying"
                     /\ UNCHANGED <<frame, log>>

\* The install commands of the call that exited non-zero so far
FailedRuns(l) == Cardinality({j \in 1..Len(l) : l[j].kind = "install" /\ l[j].status # 0})

\* One attempt of self.retry: run_command(command), and what follows its status
run_command ==
    /\ pc = "retrying"
    /\ UNCHANGED <<config, _virtualenv_modules, python_exists, calls, history, retval>>
    /\ UNCHANGED PureVars
    /\ \E status \in (IF FailedRuns(log) < MaxFailures THEN {0, 1} ELSE {0}) :
        LET n == retrying.n + 1
            ran == Append(log, Event("install", retrying.command, status,
                                     IF status = 0 THEN "" ELSE WARNING,
                                     frame, retrying.top, retrying.outer # <<>>))
            gave_up == Append(ran, Event("retry", retrying.command, status,
                                         retrying.error_level, frame, retrying.top,
                                         retrying.outer # <<>>))
            returned == status = 0 \/ (n = retrying.attempts /\ retrying.error_level # FATAL)
        IN  IF status # 0 /\ n < retrying.attempts
            THEN /\ retrying' = [retrying EXCEPT !.n = n]
                 /\ log' = ran
                 /\ UNCHANGED <<pc, frame>>
            ELSE IF ~returned
            THEN /\ log' = gave_up
                 /\ pc' = "fatal"
                 /\ retrying' = [retrying EXCEPT !.n = n]
                 /\ UNCHANGED frame
            ELSE IF retrying.outer # <<>>
            THEN IF editable_fatal(retrying.outer[1])
                 THEN /\ log' = Append(ran, Event("config_error", <<>>, 0, FATAL, frame,
                                                  retrying.top, FALSE))
                      /\ pc' = "fatal"
                      /\ UNCHANGED <<frame, retrying>>
                 ELSE /\ log' = ran
                      /\ retrying' = Retry(config, retrying.outer[1], retrying.top, <<>>)
                      /\ UNCHANGED <<pc, frame>>
            ELSE LET f == advance(frame, _virtualenv_modules)
                 IN  /\ log' = IF status = 0 THEN ran ELSE gave_up
                     /\ frame' = f
                     /\ retrying' = NoRetry
                     /\ pc' = IF f.phase = "query" THEN "query" ELSE "installing"

\* The end of create_virtualenv: self.package_versions(log_output=True)
final_package_versions ==
    /\ pc = "query"
    /\ UNCHANGED <<config, _virtualenv_modules, python_exists, calls, history, retrying>>
    /\ UNCHANGED PureVars
    /\ \E is_string \in BOOLEAN, text \in FreezeOutputs :
        LET r == package_versions(text)
            queried == Append(log, Event("freeze", <<query_python_path(config, "pip"), "freeze">>,
                                         IF is_string THEN 0 ELSE 1, "", frame, NoArgs, FALSE))
        IN  IF ~is_string \/ r.fatal
            THEN /\ log' = Append(queried, Event("fatal", <<>>, 0, FATAL, frame, NoArgs, FALSE))
                 /\ pc' = "fatal"
                 /\ UNCHANGED <<frame, retval>>
            ELSE /\ log' = queried
                 /\ pc' = "idle"
                 /\ retval' = None
                 /\ UNCHANGED frame

Next ==
    \/ \E spec \in RegisteredSpecs : register_virtualenv_module(spec)
    \/ \E modules \in ModuleLists,
          requirements \in Prefixes(RequirementsFiles, 1) :
            create_virtualenv(modules, requirements)
    \/ install_module
    \/ run_command
    \/ final_package_versions

Spec == Init /\ [][Next]_vars

---------------------------------------------------------------------------
(* package_versions and is_python_package_installed on every freeze output
   of the model *)

\* The variables of the script, at rest
ScriptAtRest ==
    /\ config = Config(TRUE, FALSE, FALSE, <<>>, <<>>, FALSE, FALSE, "venv/cache", <<>>,
                       TRUE, None)
    /\ python_exists = TRUE
    /\ _virtualenv_modules = <<>>
    /\ pc = "idle"
    /\ calls = 0
    /\ frame = NoFrame
    /\ retrying = NoRetry
    /\ log = <<>>
    /\ history = <<>>
    /\ retval = ""

ScriptVars == <<config, python_exists, _virtualenv_modules, pc, calls, frame, retrying,
                log, history, retval>>

\* The output without its last line break
Chomp(text) == IF text = <<>> THEN text ELSE SubSeq(text, 1, Len(text) - 1)

InitParse ==
    /\ ScriptAtRest
    /\ listing \in SeqsUpTo(LineRecords, MaxLines)
    /\ pip_freeze_output \in {Render(listing), Chomp(Render(listing))}
    /\ packages = NoResult
    /\ installed = NoAnswer
    /\ call = NoArgs
    /\ command = NoCommand

\* packages = self.package_versions(pip_freeze_output)
PackageVersions ==
    /\ ~packages.done
    /\ packages' = [fatal |-> package_versions(pip_freeze_output).fatal,
                    packages |-> package_versions(pip_freeze_output).packages,
                    done |-> TRUE]
    /\ UNCHANGED <<listing, pip_freeze_output, installed, call, command>>
    /\ UNCHANGED ScriptVars

\* installed = self.is_python_package_installed(package_name)
IsPythonPackageInstalled(package_name) ==
    /\ ~installed.done
    /\ installed' = [name |-> package_name,
                     fatal |-> is_python_package_installed(package_name, pip_freeze_output).fatal,
                     result |-> is_python_package_installed(package_name, pip_freeze_output).result,
                     done |-> TRUE]
    /\ UNCHANGED <<listing, pip_freeze_output, packages, call, command>>
    /\ UNCHANGED ScriptVars

NextParse ==
    \/ PackageVersions
    \/ \E package_name \in PackageNames : IsPythonPackageInstalled(package_name)

SpecParse == InitParse /\ [][NextParse]_vars

---------------------------------------------------------------------------
(* The command of install_module for every call and configuration of the
   model *)

CommandConfigs ==
    {Config(TRUE, FALSE, FALSE, <<>>, <<>>, windows, verbose, cache, links, index, None) :
        windows \in BOOLEAN, verbose \in BOOLEAN, cache \in {"venv/cache", ""},
        links \in Prefixes(FindLinks, MaxArgs), index \in BOOLEAN}

CommandCalls ==
    {Args(module, module_url, method, requirements, FALSE, opts, no_deps, editable) :
        module \in {None, "m"}, module_url \in {None, "http://x/m.tgz"},
        method \in {None, "pip", "easy_install", "setup.py"},
        requirements \in Prefixes(RequirementsFiles, MaxArgs),
        opts \in Prefixes(GlobalOptions, MaxArgs),
        no_deps \in BOOLEAN, editable \in BOOLEAN}

InitCommand ==
    /\ ScriptAtRest
    /\ listing = <<>>
    /\ pip_freeze_output = <<>>
    /\ packages = NoResult
    /\ installed = NoAnswer
    /\ call \in CommandCalls
    /\ command = NoCommand

\* install_module(**call) under a configuration: the commands it hands to
\* self.retry, or the configuration error it raises
InstallModuleCommand(c) ==
    /\ command.status = "none"
    /\ config' = c
    /\ command' =
        IF early_fatal(call) THEN [NoCommand EXCEPT !.status = FATAL]
        ELSE LET sub == IF has_sub_install(call)
                        THEN build_command(c, sub_install_args(call)) ELSE <<>>
             IN  IF editable_fatal(call) THEN [NoCommand EXCEPT !.status = FATAL, !.sub = sub]
                 ELSE [status |-> "built", sub |-> sub, argv |-> build_command(c, call),
                       cwd |-> command_cwd(call)]
    /\ UNCHANGED <<python_exists, _virtualenv_modules, pc, calls, frame, retrying, log,
                   history, retval>>
    /\ UNCHANGED <<listing, pip_freeze_output, packages, installed, call>>

NextCommand == \E c \in CommandConfigs : InstallModuleCommand(c)

SpecCommand == InitCommand /\ [][NextCommand]_vars

---------------------------------------------------------------------------
(* Properties of create_virtualenv *)

\* Positions of log holding an event of one kind
At(kind) == {j \in 1..Len(log) : log[j].kind = kind}

\* The install_module call of create_virtualenv an event belongs to
SameCall(e1, e2) == e1.phase = e2.phase /\ e1.i = e2.i /\ e1.no_deps = e2.no_deps

\* The current (or last) call's entry of history
ThisCall == history[Len(history)]

\* C1: whenever the interpreter binary already exists when create_virtualenv
\* runs, that call does not run the creation tool and the creation step raises
\* no error; a call that follows one whose creation tool exited 0 does not run
\* the creation tool.
C1_IdempotentCreation ==
    /\ \A k \in 1..Len(history) :
        /\ history[k].python_existed => history[k].virtualenv = NotRun
        /\ (k > 1 /\ history[k - 1].virtualenv = Exited(0)) => history[k].virtualenv = NotRun
    /\ (history # <<>> /\ ThisCall.python_existed) =>
        /\ At("virtualenv") = {}
        /\ (pc = "fatal" => log # <<>> /\ log[Len(log)].kind # "virtualenv")

C1_Witness ==
    /\ Len(history) = 2
    /\ history[1] = [python_existed |-> FALSE, virtualenv |-> Exited(0)]
    /\ history[2] = [python_existed |-> TRUE, virtualenv |-> NotRun]
    /\ pc = "idle"
    /\ retval = None

\* C2 as claimed: within one install_module call of create_virtualenv no
\* install command runs more than once when the call is optional, nor more
\* than the default attempt count when it is not.
C2_RetryBound ==
    \A j \in At("install") :
        Cardinality({k \in At("install") :
                        SameCall(log[k], log[j]) /\ log[k].command = log[j].command})
            <= (IF log[j].optional THEN 1 ELSE DefaultAttempts)

\* C3 as claimed: an install whose attempts all failed is reported at WARNING
\* when it is optional, and the run goes on; at FATAL when it is not, and
\* nothing runs after it.
C3_FailureSeverity ==
    \A j \in At("retry") :
        IF log[j].optional THEN log[j].level = WARNING
        ELSE log[j].level = FATAL /\ j = Len(log) /\ pc = "fatal"

\* C4: when the creation tool is not found, create_virtualenv returns -1 (the
\* success return is None), the failure is in the summary at FATAL, the script
\* goes on, and nothing else was done: no creation tool, no DLL staging, no
\* download, no install, no package query.
C4_SoftFailure ==
    (~config.virtualenv_found /\ calls > 0) =>
        /\ retval = "-1" /\ retval # None
        /\ pc = "idle"
        /\ Len(log) = 1
        /\ log[1].kind = "add_summary" /\ log[1].level = FATAL
        /\ ThisCall.virtualenv = NotRun

C4_Witness ==
    /\ ~config.virtualenv_found
    /\ config.virtualenv_python_dll /\ config.pip_url
    /\ _virtualenv_modules # <<>>
    /\ calls = 2
    /\ retval = "-1"

\* The place of an install in the order of create_virtualenv's loops
Rank(e) == IF e.phase = "registered" THEN 2 ELSE 1
Before(e1, e2) == Rank(e1) < Rank(e2) \/ (Rank(e1) = Rank(e2) /\ e1.i <= e2.i)

C6_ErrorsBeforeAnySubprocess ==
    \A j \in At("config_error") :
        \A k \in 1..(j - 1) : log[k].kind \notin {"virtualenv", "install"}

\* The configuration errors of an install_module call, as the claim lists them
ClaimedConfigError(a) ==
    \/ a.install_method \notin {None, "pip", "easy_install"}
    \/ /\ a.install_method \in {None, "pip"}
       /\ a.module = None /\ a.module_url = None /\ a.requirements = <<>>
    \/ a.install_method = "easy_install" /\ a.module = None
    \/ /\ a.editable /\ a.install_method \notin {None, "pip"}
       /\ ~(a.module = None /\ a.module_url = None)

\* C6 amended: a configuration error is FATAL and ends the run, and it is
\* raised before the command of the install_module call it belongs to is
\* run: the only installer runs of that call before it are those of its
\* requirements sub-install. No call with a configuration error gets its
\* own command to self.retry.
C6_ErrorsBeforeOwnCommand ==
    /\ \A j \in At("config_error") :
        /\ log[j].level = FATAL /\ j = Len(log) /\ pc = "fatal"
        /\ \A k \in At("install") : SameCall(log[k], log[j]) => log[k].sub
    /\ (pc = "retrying" /\ retrying.outer = <<>>) => ~ClaimedConfigError(retrying.top)
    /\ (pc = "retrying" /\ retrying.outer # <<>>) =>
            ~ClaimedConfigError(sub_install_args(retrying.top))

C6_Witness ==
    /\ pc = "fatal"
    /\ log[Len(log)].kind = "config_error"
    /\ At("virtualenv") # {}
    /\ \E k \in At("install") : SameCall(log[k], log[Len(log)]) /\ log[k].sub

\* C10 as claimed: the first pass of a two_pass registered module runs its
\* install command with --no-deps.
HasNoDeps(cmd) == \E n \in 1..Len(cmd) : cmd[n] = "--no-deps"

C10_FirstPassNoDeps ==
    \A j \in At("install") :
        (log[j].phase = "registered" /\ log[j].no_deps /\ ~log[j].sub) =>
            HasNoDeps(log[j].command)

\* Runs of the own command of one pass of registered module i
PassRuns(i, no_deps) ==
    {j \in At("install") : /\ log[j].phase = "registered" /\ log[j].i = i
                           /\ log[j].no_deps = no_deps /\ ~log[j].sub}

ByPip(i) == _virtualenv_modules[i].method \in {None, "pip"}

\* C10 amended: a two_pass registered module gets two install_module calls,
\* the no_deps one first and the plain one only after it returned, each with
\* its own attempts; the first carries --no-deps when the module is installed
\* by pip, and with easy_install it runs the same command as the second; a
\* module without two_pass gets the plain call only.
C10_TwoPass ==
    /\ \A i \in 1..Len(_virtualenv_modules) :
        LET spec == _virtualenv_modules[i]
            bound == IF spec.optional THEN 1 ELSE DefaultAttempts
        IN  /\ \A j \in PassRuns(i, TRUE), k \in PassRuns(i, FALSE) :
                /\ j < k
                /\ ~ByPip(i) => log[j].command = log[k].command
            /\ \A j \in PassRuns(i, TRUE) : HasNoDeps(log[j].command) <=> ByPip(i)
            /\ \A j \in PassRuns(i, FALSE) : ~HasNoDeps(log[j].command)
            /\ Cardinality(PassRuns(i, TRUE)) <= bound
            /\ Cardinality(PassRuns(i, FALSE)) <= bound
            /\ ~spec.two_pass => PassRuns(i, TRUE) = {}
            /\ (PassRuns(i, FALSE) # {} /\ spec.two_pass) => PassRuns(i, TRUE) # {}
            /\ pc = "query" => PassRuns(i, FALSE) # {}

C10_Witness ==
    /\ pc = "query"
    /\ \E i \in 1..Len(_virtualenv_modules) :
        /\ _virtualenv_modules[i].two_pass /\ ByPip(i)
        /\ Cardinality(PassRuns(i, TRUE)) = DefaultAttempts
        /\ Cardinality(PassRuns(i, FALSE)) = DefaultAttempts

---------------------------------------------------------------------------
(* Properties of package_versions and is_python_package_installed *)

\* The package lines of the listing, in order
RECURSIVE PkgLines(_)
PkgLines(ls) ==
    IF ls = <<>> THEN <<>>
    ELSE IF Head(ls).kind = "pkg" THEN <<Head(ls)>> \o PkgLines(Tail(ls))
    ELSE PkgLines(Tail(ls))

HasBadLine(ls) == \E n \in 1..Len(ls) : ls[n].kind = "bad"

\* The (name, version) pairs written in the listing
WrittenPairs(ls) == {<<ls[n].name, ls[n].version>> : n \in {m \in 1..Len(ls) : ls[m].kind = "pkg"}}

\* For each name written, its pair of the last line with that name
LastPairs(ls) ==
    {<<ls[n].name, ls[n].version>> :
        n \in {m \in 1..Len(ls) :
                /\ ls[m].kind = "pkg"
                /\ \A k \in (m + 1)..Len(ls) : ~(ls[k].kind = "pkg" /\ ls[k].name = ls[m].name)}}

\* C7 as claimed: the result holds exactly the (name, version) pairs of the
\* well-formed lines; a malformed line makes the call abort.
C7_ExactlyThePairs ==
    packages.done =>
        IF HasBadLine(listing) THEN packages.fatal
        ELSE ~packages.fatal /\ packages.packages = WrittenPairs(listing)

\* C7 amended: the result holds, for each name of a well-formed line, the
\* pair of the last such line with that name (all the pairs when no name is
\* repeated), wherever the blank and '-' lines are placed; a malformed line
\* makes the call abort and nothing is returned.
C7_LastPairPerName ==
    packages.done =>
        IF HasBadLine(listing) THEN packages.fatal /\ packages.packages = {}
        ELSE /\ ~packages.fatal
             /\ packages.packages = LastPairs(listing)
             /\ packages.packages = package_versions(Render(PkgLines(listing))).packages

C7_Witness ==
    /\ packages.done /\ ~packages.fatal
    /\ Len(listing) = 3
    /\ listing[1].kind = "pkg" /\ listing[2].kind = "dash" /\ listing[3].kind = "pkg"
    /\ listing[1].name = listing[3].name /\ listing[1].version # listing[3].version
    /\ packages.packages = {<<listing[3].name, listing[3].version>>}

\* Lower-casing, as the claim means it
ClaimLower(name) ==
    [n \in 1..Len(name) |-> IF name[n] = "P" THEN "p" ELSE IF name[n] = "Q" THEN "q" ELSE name[n]]

\* C8 as claimed: no two distinct keys of the result are equal after
\* lower-casing.
C8_KeysUniqueLowerCased ==
    (packages.done /\ ~packages.fatal) =>
        \A k1, k2 \in Keys(packages.packages) : ClaimLower(k1) = ClaimLower(k2) => k1 = k2

\* C8 amended: the keys are the names as written, unique as written (one
\* entry per key; two keys may differ in case only), and
\* is_python_package_installed(name) is true exactly when at least one key
\* equals name after lower-casing both.
C8_KeysUniqueAsWritten ==
    /\ (packages.done /\ ~packages.fatal) =>
        /\ \A kv1, kv2 \in packages.packages : kv1[1] = kv2[1] => kv1 = kv2
        /\ Keys(packages.packages) = {kv[1] : kv \in WrittenPairs(listing)}
    /\ installed.done =>
        /\ installed.fatal = HasBadLine(listing)
        /\ ~installed.fatal =>
            (installed.result <=>
                \E kv \in WrittenPairs(listing) : ClaimLower(kv[1]) = ClaimLower(installed.name))

C8_Witness ==
    /\ packages.done /\ installed.done /\ ~packages.fatal
    /\ {<<"p">>, <<"P">>} \subseteq Keys(packages.packages)
    /\ Cardinality(packages.packages) = 2
    /\ Len(listing) = 3
    /\ installed.name = <<"P">> /\ installed.result

---------------------------------------------------------------------------
(* Properties of the command install_module builds *)

\* The arguments that follow the flag in cmd, in order
RECURSIVE After(_, _)
After(flag, cmd) ==
    IF Len(cmd) < 2 THEN <<>>
    ELSE IF Head(cmd) = flag THEN <<cmd[2]>> \o After(flag, Tail(Tail(cmd)))
    ELSE After(flag, Tail(cmd))

Positions(flag, cmd) == {n \in 1..Len(cmd) : cmd[n] = flag}

\* The source the claim names: module_url, defaulting to the module name
ClaimSource(a) == IF a.module_url # None THEN a.module_url ELSE a.module

\* C9: the pip command holds one `-r file` pair per requirements file in the
\* order given; `-e`, when the module is editable, is right before the source;
\* the source is the last element; every --global-option and --find-links
\* pair is after the -r pairs and before -e and the source.
C9_ArgumentOrder ==
    (command.status = "built" /\ call.install_method \in {None, "pip"}) =>
        LET cmd == command.argv
            src == ClaimSource(call)
            tail == IF src = None THEN Len(cmd) + 1
                    ELSE IF call.editable THEN Len(cmd) - 1 ELSE Len(cmd)
        IN  /\ After("-r", cmd) = call.requirements
            /\ After("--global-option", cmd) = call.global_options
            /\ After("--find-links", cmd) = config.find_links
            /\ src # None => cmd[Len(cmd)] = src
            /\ (src # None /\ call.editable) => cmd[Len(cmd) - 1] = "-e"
            /\ Positions("-e", cmd) \subseteq {Len(cmd) - 1}
            /\ ~(src # None /\ call.editable) => Positions("-e", cmd) = {}
            /\ \A r \in Positions("-r", cmd),
                  o \in Positions("--global-option", cmd) \cup Positions("--find-links", cmd) :
                    r + 1 < o /\ o + 1 < tail

C9_Witness ==
    /\ command.status = "built"
    /\ call.install_method = "pip"
    /\ call.module = "m" /\ call.module_url = None
    /\ call.editable
    /\ Len(call.requirements) = 2 /\ Len(call.global_options) = 2
    /\ Len(config.find_links) = 2
    /\ command.argv[Len(command.argv)] = "m"

====
